---- MODULE Spec2Model ----
(***************************************************************************)
(* Model of typing.py: the per-line typing state machine (practice_line),  *)
(* the passage sequencer (practice_passage) and the statistics classes     *)
(* WPM, Accuracy and SessionStats.                                         *)
(*                                                                         *)
(* Strings are sequences of one-character strings.  Time is counted in     *)
(* half seconds (see Ticks), so that the 0.5 s intervals of the            *)
(* documented scenarios are integers.  A quotient a / b is kept as the     *)
(* pair (num, den) and never rounded.                                      *)
(***************************************************************************)
EXTENDS Integers, Sequences, FiniteSets, TLC

\* ---------------------------------------------------------------- bounds

\* Largest number of characters read from the keyboard in one run.
MaxKeys == 6

\* ------------------------------------------------------------- constants

\* typing.py:10, in seconds.
MAX_KEY_INTERVAL == 10

\* A duration of s seconds in the unit of the clock (half seconds).
Ticks(s) == 2 * s

\* typing.py:53-74, the terminal control strings.
CSI == "\\x1b["
RED == 1
GREEN == 2
BLUE == 4
MAGENTA == RED + BLUE
CYAN == BLUE + GREEN
fg(colour) == CSI \o "3" \o ToString(colour) \o "m"
reset == CSI \o "0m"
bold == CSI \o "1m"
bell == "\\a"

\* The interrupt character "\x03" read in raw mode.
ETX == "\\x03"

\* ---------------------------------------------------------------- inputs

Line_cat == <<"c", "a", "t">>
Line_ab == <<"a", "b">>
Line_a == <<"a">>

\* The passages handed to practice_passage.
Passages == { <<>>, <<Line_cat>>, <<Line_ab, Line_a>>, <<Line_a, Line_ab>> }

\* The values of --fail-lines.
FailLines == {-1, 0, 1, 2}

\* The characters get_char may deliver.
Keyboard == {"a", "b", "c", "t", "x", "\n", ETX}

\* The time a blocking read may take, in ticks: 0.5 s, exactly the
\* threshold (10 s) and above it (15 s).
Intervals == {1, Ticks(MAX_KEY_INTERVAL), Ticks(15)}

\* ------------------------------------------------------ optional / floats

\* Python's None, and a present value.
None == <<>>
Some(x) == <<x>>

\* math.inf and the finite floats.
math_inf == [finite |-> FALSE, val |-> 0]
Finite(x) == [finite |-> TRUE, val |-> x]

\* elapsed > limit, for elapsed possibly math.inf.
GreaterThan(elapsed, limit) == (~elapsed.finite) \/ elapsed.val > limit

\* The outcome of a division: a quotient num / den, or ZeroDivisionError.
ZeroDivisionError == [raised |-> TRUE, num |-> 0, den |-> 1]
Quotient(n, d) == [raised |-> FALSE, num |-> n, den |-> d]

\* -------------------------------------------------------------- class WPM

WPM(chars, seconds) == [chars |-> chars, seconds |-> seconds]

WPM_reset(self) == WPM(0, 0)

\* Mutant: the interval is not added.
WPM_add_char_no_seconds(self, seconds) == WPM(self.chars + 1, self.seconds)

WPM_add_char(self, seconds) == WPM(self.chars + 1, self.seconds + seconds)

\* chars / seconds * 12, seconds being self.seconds / Ticks(1).
WPM_get_wpm(self) ==
    IF self.seconds = 0 THEN ZeroDivisionError
    ELSE Quotient(self.chars * 12 * Ticks(1), self.seconds)

WPM_iadd(self, other) ==
    WPM(self.chars + other.chars, self.seconds + other.seconds)

\* --------------------------------------------------------- class Accuracy

Accuracy(correct, incorrect) == [correct |-> correct, incorrect |-> incorrect]

Accuracy_type_char(self, correct) ==
    IF correct THEN Accuracy(self.correct + 1, self.incorrect)
    ELSE Accuracy(self.correct, self.incorrect + 1)

Accuracy_get_acc(self) ==
    IF self.correct + self.incorrect = 0 THEN ZeroDivisionError
    ELSE Quotient(self.correct, self.correct + self.incorrect)

Accuracy_iadd(self, other) ==
    Accuracy(self.correct + other.correct, self.incorrect + other.incorrect)

\* ----------------------------------------------------- class SessionStats

SessionStats ==
    [ correct_line_wpm |-> WPM(0, 0),
      total_line_wpm   |-> WPM(0, 0),
      attempt_wpm      |-> WPM(0, 0),
      total_acc        |-> Accuracy(0, 0),
      char_accuracies  |-> <<>>,
      last_key_time    |-> None ]

\* The dict char_accuracies is a function from its keys.
init_char_stats(char_accuracies, char) ==
    IF char \in DOMAIN char_accuracies THEN char_accuracies
    ELSE char_accuracies @@ (char :> Accuracy(0, 0))

\* The interval since the last key, math.inf at the start of an attempt.
Elapsed(self, now) ==
    IF self.last_key_time # None THEN Finite(now - self.last_key_time[1])
    ELSE math_inf

\* Mutant: an interval equal to the threshold is a long break too.
LongBreak_ge(elapsed) ==
    (~elapsed.finite) \/ elapsed.val >= Ticks(MAX_KEY_INTERVAL)

\* A keystroke whose interval is too long is not counted for wpm.
LongBreak(elapsed) == GreaterThan(elapsed, Ticks(MAX_KEY_INTERVAL))

\* Mutant: the keystroke is added to attempt_wpm only.
type_char_attempt_only(self, correct, char, now) ==
    LET inited  == init_char_stats(self.char_accuracies, char)
        counted == [ self EXCEPT
                       !.total_acc = Accuracy_type_char(@, correct),
                       !.char_accuracies =
                           [inited EXCEPT ![char] = Accuracy_type_char(@, correct)],
                       !.last_key_time = Some(now) ]
        elapsed == Elapsed(self, now)
    IN  IF LongBreak(elapsed) THEN counted
        ELSE [ counted EXCEPT !.attempt_wpm = WPM_add_char(@, elapsed.val) ]

type_char(self, correct, char, now) ==
    LET inited  == init_char_stats(self.char_accuracies, char)
        counted == [ self EXCEPT
                       !.total_acc = Accuracy_type_char(@, correct),
                       !.char_accuracies =
                           [inited EXCEPT ![char] = Accuracy_type_char(@, correct)],
                       !.last_key_time = Some(now) ]
        elapsed == Elapsed(self, now)
    IN  IF LongBreak(elapsed) THEN counted
        ELSE [ counted EXCEPT
                 !.total_line_wpm = WPM_add_char(@, elapsed.val),
                 !.attempt_wpm = WPM_add_char(@, elapsed.val) ]

\* Mutant: last_key_time survives the end of the attempt.
end_attempt_keeps_time(self, success) ==
    [ self EXCEPT
        !.correct_line_wpm = IF success THEN WPM_iadd(@, self.attempt_wpm) ELSE @,
        !.attempt_wpm = WPM_reset(@) ]

\* Mutant: attempt_wpm survives the end of the attempt.
end_attempt_no_reset(self, success) ==
    [ self EXCEPT
        !.correct_line_wpm = IF success THEN WPM_iadd(@, self.attempt_wpm) ELSE @,
        !.last_key_time = None ]

\* Mutant: a failed attempt is added to correct_line_wpm too.
end_attempt_always_adds(self, success) ==
    [ self EXCEPT
        !.correct_line_wpm = WPM_iadd(@, self.attempt_wpm),
        !.attempt_wpm = WPM_reset(@),
        !.last_key_time = None ]

end_attempt(self, success) ==
    [ self EXCEPT
        !.correct_line_wpm = IF success THEN WPM_iadd(@, self.attempt_wpm) ELSE @,
        !.attempt_wpm = WPM_reset(@),
        !.last_key_time = None ]

total_wpm(self) == WPM_get_wpm(self.total_line_wpm)
correct_wpm(self) == WPM_get_wpm(self.correct_line_wpm)
accuracy(self) == Accuracy_get_acc(self.total_acc)

\* Mutant: the counters of the other dict replace those already there.
MergeCharAccuracies_overwrite(mine, theirs) ==
    [ c \in (DOMAIN mine) \cup (DOMAIN theirs) |->
        IF c \in DOMAIN theirs THEN theirs[c] ELSE mine[c] ]

\* The loop over other.char_accuracies.items().
MergeCharAccuracies(mine, theirs) ==
    [ c \in (DOMAIN mine) \cup (DOMAIN theirs) |->
        IF c \in DOMAIN theirs
        THEN Accuracy_iadd(IF c \in DOMAIN mine THEN mine[c] ELSE Accuracy(0, 0),
                           theirs[c])
        ELSE mine[c] ]

\* Mutant: total_acc is not merged.
SessionStats_iadd_skips_acc(self, other) ==
    [ self EXCEPT
        !.correct_line_wpm = WPM_iadd(@, other.correct_line_wpm),
        !.total_line_wpm = WPM_iadd(@, other.total_line_wpm),
        !.char_accuracies = MergeCharAccuracies(@, other.char_accuracies) ]

SessionStats_iadd(self, other) ==
    [ self EXCEPT
        !.correct_line_wpm = WPM_iadd(@, other.correct_line_wpm),
        !.total_line_wpm = WPM_iadd(@, other.total_line_wpm),
        !.total_acc = Accuracy_iadd(@, other.total_acc),
        !.char_accuracies = MergeCharAccuracies(@, other.char_accuracies) ]

\* ------------------------------------------------------------------ state

VARIABLES
    lines,               \* practice_passage: the passage
    fail_lines,          \* practice_passage: the failure budget of a line
    stats,               \* practice_passage: the session statistics
    current_progress,    \* practice_passage: index of the current line
    string,              \* practice_line: the target line
    str_progress,        \* practice_line: index of the expected character
    user_char,           \* practice_line: the character read last
    failures_remaining,  \* practice_line: the remaining failure budget
    line_stats,          \* practice_line: stats
    success,             \* the first component of practice_line's result
    pc,                  \* where the program is
    clock,               \* time.time(), in ticks
    nread,               \* number of characters read so far
    written,             \* what the last step wrote to sys.stdout
    report,              \* the metrics of the final report written so far
    attempt_intervals,   \* history: the intervals between the keystrokes
                         \* recorded in the current attempt
    drills,              \* history: the line drills that succeeded and
                         \* those that made the passage retreat
    sample_lines,        \* __main__: the article fetched last
    merged               \* the operands and results of += on SessionStats

vars == << lines, fail_lines, stats, current_progress, string, str_progress, user_char,
           failures_remaining, line_stats, success, pc, clock, nread,
           written, report, attempt_intervals, drills, sample_lines, merged >>

passage_vars == << lines, fail_lines, stats, current_progress, report, drills,
                   sample_lines, merged >>

\* No line drill has returned yet.
NoDrills == [succeeded |-> 0, retreated |-> 0]

Init ==
    /\ lines \in Passages
    /\ fail_lines \in FailLines
    /\ stats = SessionStats
    /\ current_progress = 0
    /\ string = <<>>
    /\ str_progress = 0
    /\ user_char = ""
    /\ failures_remaining = 0
    /\ line_stats = SessionStats
    /\ success = FALSE
    /\ pc = "practice_passage"
    /\ clock = 0
    /\ nread = 0
    /\ written = <<>>
    /\ report = <<>>
    /\ attempt_intervals = <<>>
    /\ drills = NoDrills
    /\ sample_lines = <<>>
    /\ merged = <<>>

\* ---------------------------------------------------------- practice_line

\* The call practice_line(line, max_fails=fail_lines), up to its loop.
CallPracticeLine ==
    /\ pc = "practice_passage"
    /\ current_progress < Len(lines)
    /\ string' = lines[current_progress + 1]
    /\ str_progress' = 0
    /\ failures_remaining' = fail_lines
    /\ line_stats' = SessionStats
    /\ written' = <<fg(CYAN), bold>> \o lines[current_progress + 1] \o <<reset, "\n">>
    /\ pc' = "practice_line"
    /\ attempt_intervals' = <<>>
    /\ user_char' = ""
    /\ UNCHANGED << passage_vars, success, clock, nread >>

\* get_char() returns user_char after blocking for dt ticks.
GetChar(ch, dt) ==
    /\ pc = "practice_line"
    /\ str_progress < Len(string)
    /\ nread < MaxKeys
    /\ nread' = nread + 1
    /\ clock' = clock + dt
    /\ user_char' = ch

correct_char == string[str_progress + 1]

\* The history of the attempt's intervals after a recorded keystroke.
Recorded(dt) ==
    IF line_stats.last_key_time = None THEN <<>>
    ELSE Append(attempt_intervals, dt)

\* if user_char == correct_char
Match(ch, dt) ==
    /\ GetChar(ch, dt)
    /\ user_char' = correct_char
    /\ written' = <<correct_char>>
    /\ line_stats' = type_char(line_stats, TRUE, correct_char, clock')
    /\ str_progress' = str_progress + 1
    /\ attempt_intervals' = Recorded(dt)
    /\ UNCHANGED << passage_vars, string, failures_remaining, success, pc >>

\* Mutant: the interrupt ends the line as a failure instead of the program.
Interrupt_returns(ch, dt) ==
    /\ GetChar(ch, dt)
    /\ user_char' # correct_char
    /\ user_char' = ETX
    /\ pc' = "returned"
    /\ success' = FALSE
    /\ written' = <<>>
    /\ UNCHANGED << passage_vars, string, str_progress, failures_remaining,
                    line_stats, attempt_intervals >>

\* elif user_char == "\x03": sys.exit(0)
Interrupt(ch, dt) ==
    /\ GetChar(ch, dt)
    /\ user_char' # correct_char
    /\ user_char' = ETX
    /\ pc' = "exit(0)"
    /\ written' = <<>>
    /\ UNCHANGED << passage_vars, string, str_progress, failures_remaining,
                    line_stats, success, attempt_intervals >>

display_char(ch) == IF ch = "\n" THEN <<>> ELSE <<ch>>

\* Mutant: the budget is tested before it is decremented.
BudgetExhausted_before_decrement(remaining) == remaining + 1 = 0

\* Mutant: failures_remaining <= 0.
BudgetExhausted_le(remaining) == remaining <= 0

\* failures_remaining == 0, after the decrement
BudgetExhausted(remaining) == remaining = 0

\* Mutant: the failure is recorded for the character that was typed.
Mismatch_keyed_by_typed(ch, dt) ==
    /\ GetChar(ch, dt)
    /\ user_char' # correct_char
    /\ user_char' # ETX
    /\ str_progress > 0
    /\ written' = <<bell, fg(RED), bold>> \o display_char(user_char') \o <<reset, "\n">>
    /\ line_stats' = end_attempt(type_char(line_stats, FALSE, user_char', clock'), FALSE)
    /\ attempt_intervals' = Recorded(dt)
    /\ failures_remaining' = failures_remaining - 1
    /\ IF BudgetExhausted(failures_remaining')
       THEN /\ success' = FALSE
            /\ pc' = "returned"
            /\ UNCHANGED str_progress
       ELSE /\ str_progress' = 0
            /\ UNCHANGED << success, pc >>
    /\ UNCHANGED << passage_vars, string >>

\* elif str_progress > 0
Mismatch(ch, dt) ==
    /\ GetChar(ch, dt)
    /\ user_char' # correct_char
    /\ user_char' # ETX
    /\ str_progress > 0
    /\ written' = <<bell, fg(RED), bold>> \o display_char(user_char') \o <<reset, "\n">>
    /\ line_stats' = end_attempt(type_char(line_stats, FALSE, correct_char, clock'), FALSE)
    /\ attempt_intervals' = Recorded(dt)
    /\ failures_remaining' = failures_remaining - 1
    /\ IF BudgetExhausted(failures_remaining')
       THEN /\ success' = FALSE
            /\ pc' = "returned"
            /\ UNCHANGED str_progress
       ELSE /\ str_progress' = 0
            /\ UNCHANGED << success, pc >>
    /\ UNCHANGED << passage_vars, string >>

\* Mutant: a mistyped first character costs a failure.
FirstMismatch_penalised(ch, dt) ==
    /\ GetChar(ch, dt)
    /\ user_char' # correct_char
    /\ user_char' # ETX
    /\ ~(str_progress > 0)
    /\ written' = <<bell>>
    /\ failures_remaining' = failures_remaining - 1
    /\ UNCHANGED << passage_vars, string, str_progress, line_stats, success, pc,
                    attempt_intervals >>

\* else: the first character of the line was mistyped
FirstMismatch(ch, dt) ==
    /\ GetChar(ch, dt)
    /\ user_char' # correct_char
    /\ user_char' # ETX
    /\ ~(str_progress > 0)
    /\ written' = <<bell>>
    /\ UNCHANGED << passage_vars, string, str_progress, failures_remaining,
                    line_stats, success, pc, attempt_intervals >>

\* The loop of practice_line is left: the line was typed.
LineTyped ==
    /\ pc = "practice_line"
    /\ ~(str_progress < Len(string))
    /\ written' = <<"\n">>
    /\ line_stats' = end_attempt(line_stats, TRUE)
    /\ success' = TRUE
    /\ pc' = "returned"
    /\ UNCHANGED << passage_vars, string, str_progress, user_char,
                    failures_remaining, clock, nread, attempt_intervals >>

\* ------------------------------------------------------- practice_passage

\* Mutant: a failed line is repeated, the index never retreats.
NextProgress_stays(succeeded, progress) ==
    IF succeeded THEN progress + 1 ELSE progress

\* Mutant: a failed first line moves the index below 0.
NextProgress_noclamp(succeeded, progress) ==
    IF succeeded THEN progress + 1 ELSE progress - 1

\* The line index after a line drill.
NextProgress(succeeded, progress) ==
    IF succeeded THEN progress + 1
    ELSE IF progress > 0 THEN progress - 1
    ELSE progress

\* Mutant: the statistics of a failed line drill are dropped.
LineReturned_success_only ==
    /\ pc = "returned"
    /\ stats' = IF success THEN SessionStats_iadd(stats, line_stats) ELSE stats
    /\ current_progress' = NextProgress(success, current_progress)
    /\ pc' = "practice_passage"
    /\ written' = <<>>
    /\ drills' = [ succeeded |-> drills.succeeded + (IF success THEN 1 ELSE 0),
                   retreated |-> drills.retreated +
                       (IF ~success /\ current_progress > 0 THEN 1 ELSE 0) ]
    /\ UNCHANGED << lines, fail_lines, report, sample_lines, merged, string,
                    str_progress, user_char, failures_remaining, line_stats,
                    success, clock, nread, attempt_intervals >>

\* practice_line has returned: stats += line_stats, then the cursor moves.
LineReturned ==
    /\ pc = "returned"
    /\ stats' = SessionStats_iadd(stats, line_stats)
    /\ current_progress' = NextProgress(success, current_progress)
    /\ pc' = "practice_passage"
    /\ written' = <<>>
    /\ drills' = [ succeeded |-> drills.succeeded + (IF success THEN 1 ELSE 0),
                   retreated |-> drills.retreated +
                       (IF ~success /\ current_progress > 0 THEN 1 ELSE 0) ]
    /\ UNCHANGED << lines, fail_lines, report, sample_lines, merged, string,
                    str_progress, user_char, failures_remaining, line_stats, success, clock, nread,
                    attempt_intervals >>

\* The metrics of the report, in the order they are written; the first
\* division by zero ends the program with ZeroDivisionError.
ReportMetrics(self) ==
    LET all == <<total_wpm(self), correct_wpm(self), accuracy(self)>>
        firstRaise == { i \in 1..3 : all[i].raised /\ \A j \in 1..(i - 1) : ~all[j].raised }
    IN  IF firstRaise = {} THEN all
        ELSE SubSeq(all, 1, (CHOOSE i \in firstRaise : TRUE) - 1)

\* The loop of practice_passage is left: the final report.
FinalReport ==
    /\ pc = "practice_passage"
    /\ ~(current_progress < Len(lines))
    /\ report' = ReportMetrics(stats)
    /\ pc' = IF Len(report') = 3 THEN "done" ELSE "ZeroDivisionError"
    /\ written' = [i \in 1..Len(report') |-> fg(GREEN)]
                    \o (IF Len(report') = 3 THEN <<fg(MAGENTA)>> ELSE <<>>)
    /\ UNCHANGED << lines, fail_lines, stats, current_progress, drills,
                    sample_lines, merged, string,
                    str_progress, user_char, failures_remaining, line_stats, success,
                    clock, nread, attempt_intervals >>

ReadChar ==
    \E ch \in Keyboard, dt \in Intervals :
        \/ Match(ch, dt)
        \/ Interrupt(ch, dt)
        \/ Mismatch(ch, dt)
        \/ FirstMismatch(ch, dt)

Next ==
    \/ CallPracticeLine
    \/ ReadChar
    \/ LineTyped
    \/ LineReturned
    \/ FinalReport

Spec == Init /\ [][Next]_vars

\* ------------------------------------------------- += on SessionStats

\* Largest value of a counter of the statistics that are merged.
MergeMax == 1

\* Statistics with the counters x and y spread over the fields, and
\* char_accuracies with the keys of shape.
SampleStats(x, y, shape) ==
    [ correct_line_wpm |-> WPM(x, y),
      total_line_wpm   |-> WPM(x + y, y + y),
      attempt_wpm      |-> WPM(y, x),
      total_acc        |-> Accuracy(y, x),
      char_accuracies  |-> [ c \in shape |->
                               IF c = "a" THEN Accuracy(x, y) ELSE Accuracy(y, x + 1) ],
      last_key_time    |-> IF x = 0 THEN None ELSE Some(x) ]

\* The statistics that are merged.
SampleSessionStats ==
    { SampleStats(x, y, shape) :
        x \in 0..MergeMax, y \in 0..MergeMax, shape \in SUBSET {"a", "b"} }

\* The rest of the program has not started.
Unstarted ==
    /\ lines = <<>>
    /\ fail_lines = 0
    /\ stats = SessionStats
    /\ current_progress = 0
    /\ string = <<>>
    /\ str_progress = 0
    /\ user_char = ""
    /\ failures_remaining = 0
    /\ line_stats = SessionStats
    /\ success = FALSE
    /\ clock = 0
    /\ nread = 0
    /\ written = <<>>
    /\ report = <<>>
    /\ attempt_intervals = <<>>
    /\ drills = NoDrills

unstarted_vars == << lines, fail_lines, stats, current_progress, string, str_progress,
                     user_char, failures_remaining, line_stats, success, clock,
                     nread, written, report, attempt_intervals, drills >>

\* Three statistics a, b, c, and no += applied yet.
MergeInit ==
    /\ Unstarted
    /\ pc = "merge"
    /\ sample_lines = <<>>
    /\ \E a \in SampleSessionStats, b \in SampleSessionStats, c \in SampleSessionStats :
          merged = [ a |-> a, b |-> b, c |-> c,
                     ab |-> None, ba |-> None, ab_c |-> None, a_bc |-> None ]

\* a += b
MergeAB ==
    /\ pc = "merge"
    /\ merged.ab = None
    /\ merged' = [merged EXCEPT !.ab = Some(SessionStats_iadd(merged.a, merged.b))]
    /\ UNCHANGED << unstarted_vars, pc, sample_lines >>

\* b += a
MergeBA ==
    /\ pc = "merge"
    /\ merged.ba = None
    /\ merged' = [merged EXCEPT !.ba = Some(SessionStats_iadd(merged.b, merged.a))]
    /\ UNCHANGED << unstarted_vars, pc, sample_lines >>

\* a += b; a += c
MergeAB_C ==
    /\ pc = "merge"
    /\ merged.ab_c = None
    /\ merged' = [merged EXCEPT !.ab_c =
                     Some(SessionStats_iadd(SessionStats_iadd(merged.a, merged.b),
                                            merged.c))]
    /\ UNCHANGED << unstarted_vars, pc, sample_lines >>

\* b += c; a += b
MergeA_BC ==
    /\ pc = "merge"
    /\ merged.a_bc = None
    /\ merged' = [merged EXCEPT !.a_bc =
                     Some(SessionStats_iadd(merged.a,
                                            SessionStats_iadd(merged.b, merged.c)))]
    /\ UNCHANGED << unstarted_vars, pc, sample_lines >>

MergeNext == MergeAB \/ MergeBA \/ MergeAB_C \/ MergeA_BC

MergeSpec == MergeInit /\ [][MergeNext]_vars

\* ------------------------------------------------------------ wikisample

\* Largest number of sentences of an article.
MaxSentences == 2

\* The characters U+2013 (en dash) and U+00E9 (e with acute accent).
EN_DASH == "\\u2013"
E_ACUTE == "\\u00e9"

\* wikisample.py:10
english_chars ==
    { "p", "y", "f", "g", "c", "r", "l", "a", "o", "e", "u", "i", "d",
      "h", "t", "n", "s", "q", "j", "k", "x", "b", "m", "w", "v", "z",
      "P", "Y", "F", "G", "C", "R", "L", "A", "O", "E", "U", "I", "D",
      "H", "T", "N", "S", "Q", "J", "K", "X", "B", "M", "W", "V", "Z",
      " ", "1", "2", "3", "4", "5", "6", "7", "8", "9", "0", "!", "\"",
      "$", "%", "^", "&", "*", "(", ")", "[", "]", "{", "}", "'", "@",
      ",", ".", "<", ">", "/", "?", "=", "+", "-", "_", "#", "~", ";",
      ":" }

\* wikisample.py:13-15
equivalent_chars == (EN_DASH :> "-")

\* The characters str.strip() removes and \s matches.
Whitespace == {" ", "\t", "\n", "\r", "\f"}

RECURSIVE Positions(_, _, _, _)
\* The indices lo..hi of s that hold a character of chars, in order.
Positions(s, chars, lo, hi) ==
    IF lo > hi THEN <<>>
    ELSE IF lo = hi THEN (IF s[lo] \in chars THEN << lo >> ELSE <<>>)
    ELSE LET mid == (lo + hi) \div 2
         IN  Positions(s, chars, lo, mid) \o Positions(s, chars, mid + 1, hi)

\* re.split(sep, s) for a pattern of one character.
re_split(sep, s) ==
    LET cuts == Positions(s, {sep}, 1, Len(s))
        n    == Len(cuts) + 1
    IN  [ k \in 1..n |->
            SubSeq(s, IF k = 1 THEN 1 ELSE cuts[k - 1] + 1,
                      IF k = n THEN Len(s) ELSE cuts[k] - 1) ]

\* str.strip()
strip(s) ==
    LET solid == { i \in 1..Len(s) : s[i] \notin Whitespace }
    IN  IF solid = {} THEN <<>>
        ELSE SubSeq(s,
                 CHOOSE i \in solid : \A j \in 1..(i - 1) : s[j] \in Whitespace,
                 CHOOSE i \in solid :
                     \A j \in (i + 1)..Len(s) : s[j] \in Whitespace)

RECURSIVE CollapseRange(_, _, _)
\* What the indices lo..hi of s contribute to re.sub(r"\s+", " ", s).
CollapseRange(s, lo, hi) ==
    IF lo > hi THEN <<>>
    ELSE IF lo = hi
         THEN IF s[lo] \notin Whitespace THEN << s[lo] >>
              ELSE IF lo > 1 /\ s[lo - 1] \in Whitespace THEN <<>>
              ELSE << " " >>
    ELSE LET mid == (lo + hi) \div 2
         IN  CollapseRange(s, lo, mid) \o CollapseRange(s, mid + 1, hi)

\* re.sub(r"\s+", " ", s)
collapse_whitespace(s) == CollapseRange(s, 1, Len(s))

RECURSIVE Flatten(_)
\* [x for piece in pieces for x in piece]
Flatten(pieces) ==
    IF pieces = <<>> THEN <<>> ELSE Head(pieces) \o Flatten(Tail(pieces))

\* re.search(r"\\displaystyle", s)
displaystyle ==
    << "\\", "d", "i", "s", "p", "l", "a", "y", "s", "t", "y", "l", "e" >>
has_displaystyle(s) ==
    \E i \in 1..(Len(s) - Len(displaystyle) + 1) :
        SubSeq(s, i, i + Len(displaystyle) - 1) = displaystyle

\* wikisample.py:53-65, with the default allowed_chars and substitutions.
is_allowed(text) ==
    LET validated == [ i \in 1..Len(text) |->
                         IF text[i] \in DOMAIN equivalent_chars
                         THEN equivalent_chars[text[i]] ELSE text[i] ]
    IN  IF \E i \in 1..Len(text) : validated[i] \notin english_chars
        THEN None
        ELSE Some(validated)

\* The index of the "." that ends the longest match of r" (\(.{10,}\)\.)"
\* starting at index i of s, 0 when there is none.
BracketMatchEnd(s, i) ==
    LET ends == { j \in (i + 13)..Len(s) :
                    /\ s[j - 1] = ")" /\ s[j] = "."
                    /\ \A k \in (i + 2)..(j - 2) : s[k] # "\n" }
    IN  IF i + 1 > Len(s) THEN 0
        ELSE IF s[i] # " " \/ s[i + 1] # "(" THEN 0
        ELSE IF ends = {} THEN 0
        ELSE CHOOSE j \in ends : \A k \in ends : j >= k

RECURSIVE BracketSplitFrom(_, _)
\* The pieces of s from index start on.
BracketSplitFrom(s, start) ==
    LET found == { i \in start..Len(s) : BracketMatchEnd(s, i) # 0 }
    IN  IF found = {} THEN << SubSeq(s, start, Len(s)) >>
        ELSE LET i == CHOOSE k \in found : \A j \in found : k <= j
                 e == BracketMatchEnd(s, i)
             IN  << SubSeq(s, start, i - 1), SubSeq(s, i + 1, e) >>
                     \o BracketSplitFrom(s, e + 1)

\* re.split(r" (\(.{10,}\)\.)", s)
bracket_split(s) == BracketSplitFrom(s, 1)

RECURSIVE WrapWords(_, _, _)
\* The loop of wrap_line over words.
WrapWords(words, max_len, short_lines) ==
    IF words = <<>> THEN short_lines
    ELSE LET word == Head(words)
             last == short_lines[Len(short_lines)]
             room == IF Len(word) + Len(last) + 1 > max_len
                     THEN Append(short_lines, <<>>)
                     ELSE short_lines
         IN  WrapWords(Tail(words), max_len,
                       [room EXCEPT ![Len(room)] = @ \o << " " >> \o word])

\* wikisample.py:69-82
wrap_line(line, max_len) ==
    IF Len(line) <= max_len THEN << line >>
    ELSE LET short_lines == WrapWords(re_split(" ", line), max_len, << <<>> >>)
         IN  [ i \in 1..Len(short_lines) |-> strip(short_lines[i]) ]

LongerThan3(ln) == Len(ln) > 3
NoLatex(ln) == ~has_displaystyle(ln)
Allowed(res) == res # None
NotEmpty(ln) == ln # <<>>

\* wikisample.py:101-125, applied to the sentences that
\* nltk.tokenize.sent_tokenize gives for the text of lines 89-96.
sanitise_article(sentences) ==
    LET split     == Flatten([ i \in 1..Len(sentences) |->
                                 re_split("\n", sentences[i]) ])
        stripped  == [ i \in 1..Len(split) |-> strip(split[i]) ]
        collapsed == [ i \in 1..Len(stripped) |->
                         collapse_whitespace(stripped[i]) ]
        long      == SelectSeq(collapsed, LongerThan3)
        nolatex   == SelectSeq(long, NoLatex)
        checked   == SelectSeq([ i \in 1..Len(nolatex) |->
                                   is_allowed(nolatex[i]) ], Allowed)
        allowed   == [ i \in 1..Len(checked) |-> checked[i][1] ]
        bracketed == SelectSeq(Flatten([ i \in 1..Len(allowed) |->
                                           bracket_split(allowed[i]) ]),
                               NotEmpty)
    IN  Flatten([ i \in 1..Len(bracketed) |-> wrap_line(bracketed[i], 160) ])

\* wikisample.py:19-49, for the title and the sentences of the page that
\* wiki.page returned.
get_article(title, sentences) == << title >> \o sanitise_article(sentences)

\* n copies of s.
Repeat(s, n) == [ i \in 1..(n * Len(s)) |-> s[((i - 1) % Len(s)) + 1] ]

\* Titles of pages.
Title_cat == << "C", "a", "t" >>
Title_cafe == << "C", "a", "f", E_ACUTE >>
Titles == { Title_cat, Title_cafe }

\* Sentences of pages: plain, with an en dash, with an untypable
\* character, with LaTeX, with line breaks and runs of blanks, ending in a
\* long bracketed phrase, and longer than 160 characters.
Sentence_plain == << "A", " ", "c", "a", "t", "." >>
Sentence_dash == << "1", EN_DASH, "2", " ", "a", "b" >>
Sentence_accent == << "c", "a", "f", E_ACUTE, "s", "." >>
Sentence_latex == << "{" >> \o displaystyle \o << " ", "x", "}" >>
Sentence_breaks ==
    << "a", "b", "\n", " ", "c", " ", "\t", "d", " ", "e", " ", "\n",
       "f", "g", "h", "i" >>
Sentence_bracket ==
    << "a", "b", "c", "d", " ", "(", "c", "d", "e", "f", "g", " ", "h", "i",
       "j", "k", "l", ")", "." >>
Sentence_long == Repeat(Repeat(<< "a", "b", "c", "d" >>, 10) \o << " " >>, 5)
Sentences == { Sentence_plain, Sentence_dash, Sentence_accent, Sentence_latex,
               Sentence_breaks, Sentence_bracket, Sentence_long }

\* The pages wiki.page may return: a title and the sentences of its text.
WikiPages == Titles \X [ 1..MaxSentences -> Sentences ]

\* What get_article returns for them.
Articles == { get_article(page[1], page[2]) : page \in WikiPages }

\* __main__ before the first article is fetched.
ArticleInit ==
    /\ Unstarted
    /\ pc = "main"
    /\ sample_lines = <<>>
    /\ merged = <<>>

\* while len(sample_lines) < 5: sample_lines = wikisample.get_article(...)
GetArticle ==
    /\ pc = "main"
    /\ Len(sample_lines) < 5
    /\ \E article \in Articles : sample_lines' = article
    /\ UNCHANGED << unstarted_vars, pc, merged >>

\* sample_lines[0:10]
FirstTen(ls) == SubSeq(ls, 1, IF Len(ls) < 10 THEN Len(ls) ELSE 10)

\* practice_passage(sample_lines[0:10], fail_lines=args.fail_lines)
CallPracticePassage ==
    /\ pc = "main"
    /\ ~(Len(sample_lines) < 5)
    /\ sample_lines' = FirstTen(sample_lines)
    /\ lines' = sample_lines'
    /\ fail_lines' \in FailLines
    /\ pc' = "practice_passage"
    /\ UNCHANGED << stats, current_progress, string, str_progress, user_char,
                    failures_remaining, line_stats, success, clock, nread,
                    written, report, attempt_intervals, drills, merged >>

ArticleNext == GetArticle \/ CallPracticePassage

ArticleSpec == ArticleInit /\ [][ArticleNext]_vars

\* ----------------------------------------------------------- properties

RECURSIVE SeqSum(_)
SeqSum(seq) == IF seq = <<>> THEN 0 ELSE Head(seq) + SeqSum(Tail(seq))

\* The intervals that do not exceed the threshold.
Within(dt) == dt <= Ticks(MAX_KEY_INTERVAL)
AllWithin(seq) == \A i \in 1..Len(seq) : Within(seq[i])
CountedIntervals(seq) == SelectSeq(seq, Within)

\* A step of practice_line that reads a character.
KeyRead == pc = "practice_line" /\ nread' = nread + 1

\* A step of practice_line that records a keystroke in the statistics.
KeyRecorded == KeyRead /\ line_stats'.total_acc # line_stats.total_acc

\* The number of keystrokes an Accuracy has seen.
Typed(acc) == acc.correct + acc.incorrect

\* q is the number v.
IsNumber(q, v) == (~q.raised) /\ q.num = v * q.den

\* C1: in practice_line's statistics and in practice_passage's session
\* statistics, the tally of all attempts has at least as many characters
\* and at least as many seconds as the tally of the correct attempts.
C1_AllCoversCorrect ==
    \A s \in {stats, line_stats} :
        /\ s.total_line_wpm.chars >= s.correct_line_wpm.chars
        /\ s.total_line_wpm.seconds >= s.correct_line_wpm.seconds

\* C1 witness: a session holding a successful line and counted keystrokes
\* of a failed attempt.
C1_Witness ==
    /\ stats.correct_line_wpm.chars > 0
    /\ stats.total_line_wpm.chars > stats.correct_line_wpm.chars
    /\ stats.total_line_wpm.seconds > stats.correct_line_wpm.seconds

\* C2: whenever practice_line waits for the first character of an attempt,
\* last_key_time is None and the attempt's tally is empty, and the step
\* taken from there (the first keystroke, a mistyped first character or
\* the interrupt) adds no seconds to any tally.
C2_FirstKeyNotTimed ==
    [][ (pc = "practice_line" /\ str_progress = 0) =>
          /\ line_stats.last_key_time = None
          /\ line_stats.attempt_wpm = WPM(0, 0)
          /\ line_stats'.total_line_wpm.seconds = line_stats.total_line_wpm.seconds
          /\ line_stats'.attempt_wpm.seconds = 0
          /\ line_stats'.correct_line_wpm.seconds = line_stats.correct_line_wpm.seconds
      ]_vars

\* C2 witness: the first keystroke of an attempt that follows a penalised
\* mismatch has been recorded, and no time was added for it.
C2_Witness ==
    /\ pc = "practice_line"
    /\ str_progress = 1
    /\ line_stats.total_acc.incorrect >= 1
    /\ line_stats.last_key_time # None
    /\ line_stats.attempt_wpm = WPM(0, 0)

\* C3 as stated: every recorded keystroke adds 1 to the character count of
\* the tally of all attempts; an interval above the threshold adds no
\* seconds and one equal to the threshold is added.
C3_Original ==
    [][ KeyRecorded =>
          LET dt == clock' - clock
              T  == line_stats.total_line_wpm
              T2 == line_stats'.total_line_wpm
          IN  /\ T2.chars = T.chars + 1
              /\ (line_stats.last_key_time # None /\ ~Within(dt)) => T2.seconds = T.seconds
              /\ (line_stats.last_key_time # None /\ dt = Ticks(MAX_KEY_INTERVAL))
                    => T2.seconds = T.seconds + dt
      ]_vars

\* C3 amended: every recorded keystroke adds exactly 1 to the accuracy
\* counters.  It adds 1 character and its interval to the tally of all
\* attempts when the attempt has a previous keystroke and the interval does
\* not exceed the threshold (an interval equal to the threshold is added);
\* otherwise it leaves both the characters and the seconds of the tally
\* unchanged.
C3_CountedOnlyWithinThreshold ==
    [][ KeyRecorded =>
          LET dt == clock' - clock
              T  == line_stats.total_line_wpm
              T2 == line_stats'.total_line_wpm
          IN  /\ Typed(line_stats'.total_acc) = Typed(line_stats.total_acc) + 1
              /\ IF line_stats.last_key_time # None /\ Within(dt)
                 THEN T2 = WPM(T.chars + 1, T.seconds + dt)
                 ELSE T2 = T
      ]_vars

\* C3 witness: "cat" typed with 15 s before the second character and
\* exactly 10 s before the third: only the third is in the tally.
C3_Witness ==
    /\ pc = "practice_line"
    /\ str_progress = 3
    /\ attempt_intervals = <<Ticks(15), Ticks(MAX_KEY_INTERVAL)>>
    /\ line_stats.total_line_wpm = WPM(1, Ticks(MAX_KEY_INTERVAL))
    /\ Typed(line_stats.total_acc) = 3

\* practice_line has returned success after a single attempt whose
\* intervals were all within the threshold.
SingleCleanAttempt ==
    /\ pc = "returned"
    /\ success
    /\ line_stats.total_acc.incorrect = 0
    /\ AllWithin(attempt_intervals)

\* C4 as stated: such a line of n characters has n characters and the sum
\* of the n-1 intervals in both tallies, and speed chars / seconds * 12
\* ("cat" at 0.5 s: 3 characters, 1.0 s, speed 36).
C4_Original ==
    SingleCleanAttempt =>
        LET n == Len(string)
            t == WPM(n, SeqSum(attempt_intervals))
        IN  /\ Len(attempt_intervals) = n - 1
            /\ line_stats.total_line_wpm = t
            /\ line_stats.correct_line_wpm = t
            /\ (string = Line_cat /\ attempt_intervals = <<1, 1>>)
                  => IsNumber(total_wpm(line_stats), 36)

\* C4 amended: such a line of n characters has n-1 characters (the first
\* keystroke is not counted) and the sum of the n-1 intervals in both
\* tallies; the speed is chars / seconds * 12 when seconds > 0 and a
\* ZeroDivisionError otherwise ("cat" at 0.5 s: 2 characters, 1.0 s,
\* speed 24).
C4_FirstKeyNotCounted ==
    SingleCleanAttempt =>
        LET n == Len(string)
            t == WPM(n - 1, SeqSum(attempt_intervals))
        IN  /\ Len(attempt_intervals) = n - 1
            /\ line_stats.total_line_wpm = t
            /\ line_stats.correct_line_wpm = t
            /\ IF t.seconds = 0
               THEN total_wpm(line_stats).raised /\ correct_wpm(line_stats).raised
               ELSE /\ ~total_wpm(line_stats).raised
                    /\ total_wpm(line_stats).num * Ticks(1) * t.seconds
                         = t.chars * 12 * Ticks(1) * Ticks(1) * total_wpm(line_stats).den
                    /\ correct_wpm(line_stats) = total_wpm(line_stats)
            /\ (string = Line_cat /\ attempt_intervals = <<1, 1>>)
                  => /\ t = WPM(2, Ticks(1))
                     /\ IsNumber(total_wpm(line_stats), 24)

\* C4 witness: "cat" typed in one attempt at 0.5 s per key.
C4_Witness ==
    /\ SingleCleanAttempt
    /\ string = Line_cat
    /\ attempt_intervals = <<1, 1>>

\* C5: a character other than the expected one and the interrupt, read
\* while the cursor is 0, changes nothing but the output: the budget, the
\* cursor, last_key_time (None) and all statistics stay, the bell alone is
\* written and practice_line keeps reading.
C5_FirstMismatchFree ==
    [][ ( /\ KeyRead
          /\ str_progress = 0
          /\ user_char' # string[1]
          /\ user_char' # ETX ) =>
          /\ failures_remaining' = failures_remaining
          /\ str_progress' = 0
          /\ line_stats' = line_stats
          /\ line_stats'.last_key_time = None
          /\ written' = <<bell>>
          /\ pc' = "practice_line"
          /\ success' = success
          /\ UNCHANGED passage_vars
      ]_vars

\* C5 witness: two mistyped first characters in a row at the start.
C5_Witness ==
    /\ pc = "practice_line"
    /\ nread = 2
    /\ written = <<bell>>
    /\ str_progress = 0
    /\ failures_remaining = fail_lines
    /\ line_stats = SessionStats
    /\ stats = SessionStats

\* A step of practice_line that reads a mismatching character, other than
\* the interrupt, at a cursor > 0.
PenalisedMismatch ==
    /\ KeyRead
    /\ str_progress > 0
    /\ user_char' # string[str_progress + 1]
    /\ user_char' # ETX

\* C6: with a budget n >= 1, practice_line has returned failure only with
\* exactly n mismatches at cursor > 0 recorded, and it is never still
\* reading once n are recorded; the step of the n-th such mismatch itself
\* returns failure.  Mismatches at cursor 0 are not recorded, so they do
\* not count.
C6_FailsAtNthMismatch ==
    /\ [](fail_lines >= 1 =>
            /\ (pc = "returned" /\ ~success) => line_stats.total_acc.incorrect = fail_lines
            /\ pc = "practice_line" => line_stats.total_acc.incorrect < fail_lines)
    /\ [][ (fail_lines >= 1 /\ PenalisedMismatch) =>
             /\ line_stats'.total_acc.incorrect = line_stats.total_acc.incorrect + 1
             /\ (line_stats'.total_acc.incorrect = fail_lines)
                   <=> (pc' = "returned" /\ ~success')
         ]_vars

\* C6 witness: "ab" with budget 2 fails at the second mismatch at cursor
\* > 0, after five reads, one of them a mistyped first character.
C6_Witness ==
    /\ pc = "returned"
    /\ ~success
    /\ fail_lines = 2
    /\ string = Line_ab
    /\ current_progress = 0
    /\ stats = SessionStats
    /\ nread = 5
    /\ line_stats.total_acc = Accuracy(2, 2)

\* C7: a mismatch at cursor > 0 that leaves failures_remaining non-zero
\* starts a fresh attempt (cursor 0, budget one less, last_key_time None,
\* empty attempt tally, still in practice_line); every matching character
\* then advances the cursor by one without touching the budget, and a
\* cursor at the end of the line returns success.
C7_FreshAttemptAfterMismatch ==
    [][ /\ (PenalisedMismatch /\ failures_remaining # 1) =>
              /\ str_progress' = 0
              /\ failures_remaining' = failures_remaining - 1
              /\ line_stats'.last_key_time = None
              /\ line_stats'.attempt_wpm = WPM(0, 0)
              /\ pc' = "practice_line"
        /\ (KeyRead /\ user_char' = string[str_progress + 1]) =>
              /\ str_progress' = str_progress + 1
              /\ failures_remaining' = failures_remaining
              /\ pc' = "practice_line"
        /\ (pc = "practice_line" /\ str_progress = Len(string)) =>
              (pc' = "returned" /\ success')
      ]_vars

\* C7 witness: "cat" typed c, a, x and then c, a, t with budget 2.
C7_Witness ==
    /\ pc = "returned"
    /\ success
    /\ string = Line_cat
    /\ fail_lines = 2
    /\ failures_remaining = 1
    /\ nread = 6
    /\ line_stats.total_acc = Accuracy(5, 1)

\* C8: with a negative budget practice_line never returns failure.
C8_NegativeBudgetNeverFails ==
    (fail_lines < 0 /\ pc = "returned") => success

\* C8 witness: with a negative budget, a line is completed after two
\* mismatches at cursor > 0.
C8_Witness ==
    /\ fail_lines < 0
    /\ pc = "returned"
    /\ success
    /\ line_stats.total_acc.incorrect = 2

\* C9: the tally of correct attempts is empty while practice_line reads
\* and when it has returned failure; when it has returned success the
\* tally is the accumulator of the final attempt, which holds exactly the
\* intervals of that attempt that are within the threshold.
C9_CorrectOnlyFromSuccess ==
    /\ []( /\ pc = "practice_line" => line_stats.correct_line_wpm = WPM(0, 0)
           /\ (pc = "returned" /\ ~success) => line_stats.correct_line_wpm = WPM(0, 0)
           /\ (pc = "returned" /\ success) =>
                 line_stats.correct_line_wpm =
                     WPM(Len(CountedIntervals(attempt_intervals)),
                         SeqSum(CountedIntervals(attempt_intervals))) )
    /\ [][ (pc = "practice_line" /\ pc' = "returned" /\ success') =>
              line_stats'.correct_line_wpm = line_stats.attempt_wpm ]_vars

\* C9 witness: a line completed after a failed attempt whose keystrokes
\* were counted in the tally of all attempts.
C9_Witness ==
    /\ pc = "returned"
    /\ success
    /\ line_stats.total_acc.incorrect >= 1
    /\ line_stats.correct_line_wpm.chars > 0
    /\ line_stats.total_line_wpm.chars > line_stats.correct_line_wpm.chars

\* C10: current_progress stays in 0 .. len(lines); a successful line drill
\* advances it by one, a failed one retreats it by one when it is > 0 and
\* leaves it at 0 otherwise, and no other step changes it.
C10_LineIndex ==
    /\ [](current_progress \in 0..Len(lines))
    /\ [][ IF pc = "returned"
           THEN current_progress' =
                   IF success THEN current_progress + 1
                   ELSE IF current_progress > 0 THEN current_progress - 1
                   ELSE 0
           ELSE current_progress' = current_progress
         ]_vars

\* C10 witness: two lines, the first fails once and then succeeds, the
\* second succeeds: the passage is complete at index 2.
C10_Witness ==
    /\ Len(lines) = 2
    /\ current_progress = 2
    /\ fail_lines = 1
    /\ stats.total_acc.incorrect = 1
    /\ lines[1] = Line_ab

\* The field-wise sum of two tallies.
TallySum(a, b) == [chars |-> a.chars + b.chars, seconds |-> a.seconds + b.seconds]

\* C11: the session statistics change only when a line drill has returned,
\* and then, whether it succeeded or failed, the tally of all attempts and
\* the accuracy counters grow by those returned; the tally of correct
\* attempts grows by the returned one of a successful drill and not at all
\* by a failed drill.  From the empty statistics this makes the session
\* tallies the sums over all drills.
C11_EveryDrillMerged ==
    [][ IF pc = "returned"
        THEN /\ stats'.total_line_wpm =
                    TallySum(stats.total_line_wpm, line_stats.total_line_wpm)
             /\ stats'.correct_line_wpm =
                    IF success
                    THEN TallySum(stats.correct_line_wpm, line_stats.correct_line_wpm)
                    ELSE stats.correct_line_wpm
             /\ stats'.total_acc.correct =
                    stats.total_acc.correct + line_stats.total_acc.correct
             /\ stats'.total_acc.incorrect =
                    stats.total_acc.incorrect + line_stats.total_acc.incorrect
        ELSE stats' = stats
      ]_vars

\* C11 witness: a failed drill with a counted keystroke and a successful
\* drill have both been merged.
C11_Witness ==
    /\ pc = "practice_passage"
    /\ fail_lines = 1
    /\ drills.succeeded >= 1
    /\ stats.total_acc.incorrect = 1
    /\ stats.correct_line_wpm.chars >= 1
    /\ stats.total_line_wpm.chars > stats.correct_line_wpm.chars

\* C13: reading the interrupt character, at any cursor and in any line of
\* the passage, ends the program in that step: nothing is written, the
\* budget, the cursor, the statistics, the line index and the report are
\* untouched, and the ended program takes no further step (no read, no
\* output, no report).
C13_InterruptExits ==
    /\ [][ (KeyRead /\ user_char' = ETX) =>
             /\ pc' = "exit(0)"
             /\ written' = <<>>
             /\ failures_remaining' = failures_remaining
             /\ str_progress' = str_progress
             /\ line_stats' = line_stats
             /\ stats' = stats
             /\ current_progress' = current_progress
             /\ report' = report
         ]_vars
    /\ [][ pc # "exit(0)" ]_vars

\* C13 witness: the interrupt was read at cursor 0 of the second line.
C13_Witness ==
    /\ pc = "exit(0)"
    /\ user_char = ETX
    /\ str_progress = 0
    /\ current_progress = 1
    /\ report = <<>>

\* practice_passage has left its loop and run the code of the final report.
LoopLeft == pc \in {"done", "ZeroDivisionError"}

\* A tally or accuracy whose quotient has a zero denominator.
ZeroDenominator(self) ==
    \/ self.total_line_wpm.seconds = 0
    \/ self.correct_line_wpm.seconds = 0
    \/ Typed(self.total_acc) = 0

\* C14 as stated: when the final report is reached with a zero denominator
\* (a passage of zero lines, reached without reading a character, or no
\* counted interval) practice_passage completes normally and the report
\* holds all three metrics, the affected ones as an explicit undefined
\* value.
C14_UndefinedSurfaced ==
    /\ (lines = <<>> /\ LoopLeft) => nread = 0
    /\ (LoopLeft /\ ZeroDenominator(stats)) =>
          /\ pc = "done"
          /\ Len(report) = 3
          /\ stats.total_line_wpm.seconds = 0 => report[1].raised
          /\ stats.correct_line_wpm.seconds = 0 => report[2].raised
          /\ Typed(stats.total_acc) = 0 => report[3].raised

\* C15 (the part that holds): the loop of practice_passage is left only
\* with line_index = len(lines), the code of the final report runs in the
\* step that leaves it, and nothing runs after it, so it runs at most once.
C15_LoopLeftAtEnd ==
    /\ [](LoopLeft => current_progress = Len(lines))
    /\ []((pc = "practice_passage" /\ current_progress = Len(lines)) => report = <<>>)
    /\ [][ /\ (pc = "practice_passage" /\ current_progress = Len(lines)) => LoopLeft'
           /\ ~LoopLeft ]_vars

\* C15 as stated (safety part): the final report is emitted exactly when
\* line_index = len(lines): once the loop is left the three metrics of the
\* report have been written, and none is written before.
C15_ReportEmittedAtEnd ==
    /\ report # <<>> => (LoopLeft /\ current_progress = Len(lines))
    /\ LoopLeft => (current_progress = Len(lines) /\ Len(report) = 3)

\* The counters of character c in the dict ca, zero when c is no key.
CharAcc(ca, c) == IF c \in DOMAIN ca THEN ca[c] ELSE Accuracy(0, 0)

\* C16: a mismatch at cursor > 0 and a match are each recorded, as exactly
\* one incorrect respectively one correct outcome, in total_acc and under
\* the expected character in char_accuracies, every other key being left
\* alone; the number of incorrect outcomes of a line drill is the budget
\* minus failures_remaining; the counted interval of a mismatching
\* keystroke goes to the tally of all attempts, the tally of correct
\* attempts is unchanged by it and the attempt's tally is emptied.
C16_OutcomesKeyedByExpected ==
    /\ [](pc \in {"practice_line", "returned"} =>
            line_stats.total_acc.incorrect = fail_lines - failures_remaining)
    /\ [][ /\ (PenalisedMismatch \/ (KeyRead /\ user_char' = string[str_progress + 1]))
                => KeyRecorded
           /\ KeyRecorded =>
                LET e     == string[str_progress + 1]
                    ca    == line_stats.char_accuracies
                    ca2   == line_stats'.char_accuracies
                    wrong == IF user_char' # e THEN 1 ELSE 0
                    dt    == clock' - clock
                IN  /\ DOMAIN ca2 = DOMAIN ca \cup {e}
                    /\ \A c \in DOMAIN ca : c # e => ca2[c] = ca[c]
                    /\ ca2[e] = Accuracy(CharAcc(ca, e).correct + 1 - wrong,
                                         CharAcc(ca, e).incorrect + wrong)
                    /\ line_stats'.total_acc =
                          Accuracy(line_stats.total_acc.correct + 1 - wrong,
                                   line_stats.total_acc.incorrect + wrong)
                    /\ wrong = 1 =>
                          /\ str_progress > 0
                          /\ line_stats'.total_line_wpm =
                                IF Within(dt)
                                THEN TallySum(line_stats.total_line_wpm, WPM(1, dt))
                                ELSE line_stats.total_line_wpm
                          /\ line_stats'.correct_line_wpm = line_stats.correct_line_wpm
                          /\ line_stats'.attempt_wpm = WPM(0, 0)
         ]_vars

\* C16 witness: "ab" typed a, then x half a second later: the failure is
\* recorded under b, its interval is in the tally of all attempts only.
C16_Witness ==
    /\ string = Line_ab
    /\ user_char = "x"
    /\ line_stats.char_accuracies = ("a" :> Accuracy(1, 0)) @@ ("b" :> Accuracy(0, 1))
    /\ line_stats.total_acc = Accuracy(1, 1)
    /\ line_stats.total_line_wpm = WPM(1, 1)
    /\ line_stats.correct_line_wpm = WPM(0, 0)
    /\ fail_lines - failures_remaining = 1

\* C18: with a budget of 0 practice_line never returns failure: the first
\* mismatch at cursor > 0 takes failures_remaining from 0 to -1, every
\* later one further below 0, and the line is restarted each time.
C18_ZeroBudgetNeverFails ==
    /\ []((fail_lines = 0 /\ pc = "returned") => success)
    /\ []((fail_lines = 0 /\ pc = "practice_line") =>
            failures_remaining = 0 - line_stats.total_acc.incorrect)
    /\ [][ (fail_lines = 0 /\ PenalisedMismatch) =>
             /\ failures_remaining' = failures_remaining - 1
             /\ failures_remaining' < 0
             /\ pc' = "practice_line"
             /\ str_progress' = 0
         ]_vars

\* C18 witness: with a budget of 0 a line is completed after two
\* mismatches at cursor > 0, failures_remaining being -2.
C18_Witness ==
    /\ fail_lines = 0
    /\ pc = "returned"
    /\ success
    /\ failures_remaining = -2

RECURSIVE SumOver(_, _, _)
\* The sum of the named counter of ca over the keys in keys.
SumOver(ca, keys, field) ==
    IF keys = {} THEN 0
    ELSE LET c == CHOOSE k \in keys : TRUE
         IN  (IF field = "correct" THEN ca[c].correct ELSE ca[c].incorrect)
                 + SumOver(ca, keys \ {c}, field)

\* The characters of the lines of the passage.
LineChars == UNION { { lines[i][j] : j \in 1..Len(lines[i]) } : i \in 1..Len(lines) }

\* C19: in the statistics of a line drill and in the session statistics,
\* the correct and the incorrect counters of char_accuracies add up to
\* those of total_acc, and every key is a character of a line of the
\* passage.
C19_CharMapConsistent ==
    \A s \in {stats, line_stats} :
        /\ SumOver(s.char_accuracies, DOMAIN s.char_accuracies, "correct")
              = s.total_acc.correct
        /\ SumOver(s.char_accuracies, DOMAIN s.char_accuracies, "incorrect")
              = s.total_acc.incorrect
        /\ DOMAIN s.char_accuracies \subseteq LineChars

\* C19 witness: session statistics merged from a failed and a successful
\* drill, with two keys.
C19_Witness ==
    /\ pc = "practice_passage"
    /\ fail_lines = 1
    /\ drills.succeeded >= 1
    /\ stats.total_acc.incorrect = 1
    /\ Cardinality(DOMAIN stats.char_accuracies) = 2
    /\ stats.total_acc.correct >= 3

\* C20: the line index is the number of successful line drills minus the
\* number of failed drills that started at an index > 0; when the passage
\* is complete the successful drills are len(lines) plus the retreats.
C20_IndexCountsDrills ==
    /\ current_progress = drills.succeeded - drills.retreated
    /\ LoopLeft => drills.succeeded = Len(lines) + drills.retreated

\* C20 witness: a passage of two lines completed after one retreat, with
\* three successful drills.
C20_Witness ==
    /\ LoopLeft
    /\ Len(lines) = 2
    /\ drills = [succeeded |-> 3, retreated |-> 1]

\* The counters of statistics that are reported.
Reported(self) ==
    [ all     |-> self.total_line_wpm,
      correct |-> self.correct_line_wpm,
      acc     |-> self.total_acc,
      chars   |-> self.char_accuracies ]

\* C12: on the reported counters (both tallies, total_acc and
\* char_accuracies as a mapping) += is commutative and associative:
\* a += b gives what b += a gives, and (a += b) += c gives what
\* a += (b += c) gives.
C12_MergeCommutesAssociates ==
    /\ (merged.ab # None /\ merged.ba # None) =>
          Reported(merged.ab[1]) = Reported(merged.ba[1])
    /\ (merged.ab_c # None /\ merged.a_bc # None) =>
          Reported(merged.ab_c[1]) = Reported(merged.a_bc[1])

\* C12 witness: all four merges are done on statistics with overlapping
\* but different keys and different counters; the fields that are not
\* reported differ between a += b and b += a.
C12_Witness ==
    /\ merged.ab # None /\ merged.ba # None
    /\ merged.ab_c # None /\ merged.a_bc # None
    /\ DOMAIN merged.a.char_accuracies = {"a"}
    /\ DOMAIN merged.b.char_accuracies = {"a", "b"}
    /\ DOMAIN merged.c.char_accuracies = {"b"}
    /\ Reported(merged.a) # Reported(merged.b)
    /\ Reported(merged.b) # Reported(merged.c)
    /\ merged.ab[1].attempt_wpm # merged.ba[1].attempt_wpm

\* The characters of a line are all in english_chars.
Typable(ln) == \A i \in 1..Len(ln) : ln[i] \in english_chars

\* C17 as stated: every element of the list get_article returned, the
\* first included, and so every line handed to practice_passage, consists
\* of characters of english_chars only.
C17_AllLinesTypable ==
    /\ \A i \in 1..Len(sample_lines) : Typable(sample_lines[i])
    /\ \A i \in 1..Len(lines) : Typable(lines[i])

\* C17 (the part that holds): every element after the first, i.e. every
\* line that sanitise_article returned, consists of characters of
\* english_chars only.
C17_SanitisedLinesTypable ==
    /\ \A i \in 2..Len(sample_lines) : Typable(sample_lines[i])
    /\ \A i \in 2..Len(lines) : Typable(lines[i])

====
